---- MODULE Spec2Model ----
(***************************************************************************)
(* Model of lib/page.js (easy-page): the Page object builds one page from  *)
(* a list of sections.  create() chains _addData (_addSections,            *)
(* _addOutline), _render and _write with async.waterfall / async.series /  *)
(* async.concatSeries.  Every action is one callback of the event loop:    *)
(* the handler runs to the next asynchronous boundary.                     *)
(*                                                                         *)
(* Text is a sequence of tokens.  "{{title}}" and "{{subtitle}}" are       *)
(* template expressions, "#" is the markdown heading marker, the tokens in *)
(* angle brackets are emitted HTML.                                        *)
(***************************************************************************)
EXTENDS Naturals, Sequences, FiniteSets, TLC

\* ------------------------------------------------------------------ bounds
MaxSections == 2
MaxCreates == 1
\* the outliner is run over at most MaxHeadings headings of levels 1..MaxLevel
MaxHeadings == 3
MaxLevel == 4
\* marked renders at most MaxAnchors headings of at most MaxText characters
MaxAnchors == 2
MaxText == 2

\* ------------------------------------------------------------ values
\* A section reference is a file name split at its dots.
Refs == {<<"a">>, <<"b", "hbs">>, <<"c", "md">>, <<"d", "md", "hbs">>}
\* References a caller may also pass: one with a parent-directory segment.
InputRefs == {<<"d", "md", "hbs">>, <<"../d", "md", "hbs">>}

None == [has |-> FALSE, v |-> <<>>]
Some(x) == [has |-> TRUE, v |-> x]

\* Values an entry of opts.contents may hold and contents a docs file may hold.
OverrideValues == {<<>>, <<"{{subtitle}}">>}
FileValues == {<<"#", "{{title}}">>}
\* Contents of a docs file of a page that is built more than once: one of
\* them reads the derived keys of the data.
ReuseFileValues == {<<"#", "{{title}}">>, <<"{{#each sections}}", "x">>}
OldFile == <<"old">>

\* A value of opts.data that is a function.
Fn == [has |-> TRUE, v |-> <<"function">>]

\* The data objects a caller may pass: title only; with a pageName and a
\* function; with a string under another key.
PlainData == [title |-> <<"T">>, sections |-> None, outline |-> None, pageName |-> None, fmt |-> None]
InputDatas == {PlainData, [PlainData EXCEPT !.pageName = Some(<<"X">>), !.fmt = Fn], [PlainData EXCEPT !.fmt = Some(<<"%d">>)]}

\* The page objects a caller may pass: fileName is a plain name or an
\* absolute path.
PlainPage == [fileName |-> "test", pageName |-> None]
InputPages == {PlainPage, [fileName |-> "/test", pageName |-> Some(<<"P">>)]}

NoErr == [kind |-> "none", at |-> 0]
Err(kind, i) == [kind |-> kind, at |-> i]

Ev(op, i, arg, res, e) == [op |-> op, i |-> i, arg |-> arg, res |-> res, e |-> e]

SeqsUpTo(S, n) == UNION {[1..k -> S] : k \in 0..n}

\* ------------------------------------------------------------ state
VARIABLES sections, compile, contents, files, data, destDir, destFile, pc, ct, idx, r, tasks, ti, val, cbCount, calls, log, start

\* One run of outliner.outline taken heading by heading: the headings of the
\* text, how many of them are done, the open nodes, the forest, the depth limit.
VARIABLES hs, hk, stack, nodes, lim

outliner == <<hs, hk, stack, nodes, lim>>

\* The data object of the options the caller passed to new Page, and which
\* of the options new Page was given: "absent" (no opts), "noTheme",
\* "noPageTmpl" (a theme without pageTmpl) or "full".
VARIABLES callerData, optsGiven

\* renderer.heading of marked-renderer.js called for the headings of a text:
\* the text and anchor of every heading rendered so far, and the element
\* rendered last.
VARIABLES rendered, el

renderer == <<rendered, el>>

pageVars == <<sections, compile, contents, files, data, destDir, destFile, pc, ct, idx, r, tasks, ti, val, cbCount, calls, log, start, callerData>>

\* The page object the caller passed to new Page.
VARIABLES page

\* A second Page built from the same page and options: me is the instance
\* whose callback runs next, other holds what the instance that waits keeps
\* in its own this.opts and in the closures of its pending chain.
VARIABLES me, other

\* what no step of a build touches
aside == <<outliner, optsGiven, renderer, page, me, other>>

vars == <<pageVars, aside>>

\* ------------------------------------------------------------ pure functions
\* _.hasExt(section, ext): the name carries the extension marker.
hasExt(section, ext) == \E k \in 2..Len(section) : section[k] = ext

\* opts.depth default
depth == 3

\* if (existingSection): JavaScript truthiness of the looked-up entry.
existingSection(section) == contents[section].has /\ contents[section].v # <<>>

\* _.readFile(filePath, callback): the outcome for a file of the docs directory.
readFileMissingIsEmpty(section) == IF files[section].has THEN [err |-> NoErr, out |-> files[section].v] ELSE [err |-> NoErr, out |-> <<>>]

readFile(section) == IF files[section].has THEN [err |-> NoErr, out |-> files[section].v] ELSE [err |-> Err("ENOENT", 0), out |-> <<>>]

\* The section chain of _buildSection.
BuildTasksSwapped(section) == <<"_getSection">> \o (IF hasExt(section, "md") /\ compile THEN <<"_compileSection">> ELSE <<>>) \o (IF hasExt(section, "hbs") THEN <<"_templateSection">> ELSE <<>>)

BuildTasksAlwaysCompile(section) == <<"_getSection">> \o (IF hasExt(section, "hbs") THEN <<"_templateSection">> ELSE <<>>) \o (IF hasExt(section, "md") THEN <<"_compileSection">> ELSE <<>>)

BuildTasksAlwaysTemplate(section) == <<"_getSection", "_templateSection">> \o (IF hasExt(section, "md") /\ compile THEN <<"_compileSection">> ELSE <<>>)

BuildTasks(section) == <<"_getSection">> \o (IF hasExt(section, "hbs") THEN <<"_templateSection">> ELSE <<>>) \o (IF hasExt(section, "md") /\ compile THEN <<"_compileSection">> ELSE <<>>)

\* this.opts.data.sections.join('')
RECURSIVE join(_)
join(ss) == IF ss = <<>> THEN <<>> ELSE Head(ss) \o join(Tail(ss))

\* _.renderTmpl(tmpl, data): every expression is replaced by the value of its
\* key; a key the data lacks renders as the empty string.  "{{#each sections}}"
\* stands for {{#each sections}}{{{this}}}{{/each}}.
RECURSIVE renderTmpl(_, _)
renderTmpl(tmpl, d) == IF tmpl = <<>> THEN <<>> ELSE (IF Head(tmpl) = "{{title}}" THEN d.title ELSE IF Head(tmpl) = "{{subtitle}}" THEN <<>> ELSE IF Head(tmpl) = "{{#each sections}}" THEN (IF d.sections.has THEN join(d.sections.v) ELSE <<>>) ELSE <<Head(tmpl)>>) \o renderTmpl(Tail(tmpl), d)

\* renderer.heading(text, level) of marked-renderer.js
HeadingOpen(level) == CASE level = 1 -> "<h1>" [] level = 2 -> "<h2>" [] level = 3 -> "<h3>" [] level = 4 -> "<h4>" [] level = 5 -> "<h5>" [] OTHER -> "<h6>"
HeadingClose(level) == CASE level = 1 -> "</h1>" [] level = 2 -> "</h2>" [] level = 3 -> "</h3>" [] level = 4 -> "</h4>" [] level = 5 -> "</h5>" [] OTHER -> "</h6>"
heading(text, level) == <<HeadingOpen(level), "<a>">> \o text \o <<HeadingClose(level)>>

\* renderer.heading(text, level), character by character.  Chars are the
\* characters of a heading text: a letter, a blank and the first character
\* of an entity.
Chars == {"A", " ", "&"}

toLowerCase(ch) == IF ch = "A" THEN "a" ELSE ch

\* \w
isWord(ch) == ch \in {"A", "a"}

\* the end of the run of non-word characters that starts at k
RECURSIVE runEnd(_, _)
runEnd(t, k) == IF k < Len(t) /\ ~isWord(t[k + 1]) THEN runEnd(t, k + 1) ELSE k

\* .replace(/[^\w]+/g, '-') from position k on
RECURSIVE replaceEach(_, _)
replaceEach(t, k) == IF k > Len(t) THEN <<>> ELSE (IF isWord(t[k]) THEN <<t[k]>> ELSE <<"-">>) \o replaceEach(t, k + 1)

RECURSIVE replace(_, _)
replace(t, k) == IF k > Len(t) THEN <<>> ELSE IF isWord(t[k]) THEN <<t[k]>> \o replace(t, k + 1) ELSE <<"-">> \o replace(t, runEnd(t, k) + 1)

\* var url = text.toLowerCase().replace(/[^\w]+/g, '-')
url(text) == replace([k \in 1..Len(text) |-> toLowerCase(text[k])], 1)

\* {{text}} of _.renderTmpl: the expression is HTML-escaped
escapeExpression(text) == [k \in 1..Len(text) |-> IF text[k] = "&" THEN "&amp;" ELSE text[k]]

\* the element renderer.heading returns: <h{{l}}><a href="#{{url}}"
\* class="anchor" name="{{url}}"><span class="header-link"></span></a>{{text}}</h{{l}}>
headingElement(text, level) == [open |-> HeadingOpen(level), attrs |-> [href |-> <<"#">> \o escapeExpression(url(text)), class |-> <<"anchor">>, name |-> escapeExpression(url(text))], text |-> escapeExpression(text), close |-> HeadingClose(level)]

\* marked(section, {renderer}): a line starting with "#" is a heading, any
\* other text a paragraph, the empty string stays empty.
marked(src) == IF src = <<>> THEN <<>> ELSE IF Head(src) = "#" THEN heading(Tail(src), 1) ELSE <<"<p>">> \o src \o <<"</p>">>

\* r = r.concat(y || []) of async.concatSeries
concat(acc, y) == IF y = <<>> THEN acc ELSE Append(acc, y)

\* the headings of an html text, in document order
OpenLevel(tok) == CASE tok = "<h1>" -> 1 [] tok = "<h2>" -> 2 [] tok = "<h3>" -> 3 [] tok = "<h4>" -> 4 [] tok = "<h5>" -> 5 [] tok = "<h6>" -> 6 [] OTHER -> 0
IsClose(tok) == tok \in {"</h1>", "</h2>", "</h3>", "</h4>", "</h5>", "</h6>"}
RECURSIVE headings(_, _, _, _)
headings(html, k, open, acc) == IF k > Len(html) THEN acc ELSE IF OpenLevel(html[k]) > 0 THEN headings(html, k + 1, [level |-> OpenLevel(html[k]), text |-> <<>>], acc) ELSE IF IsClose(html[k]) /\ open.level > 0 THEN headings(html, k + 1, [level |-> 0, text |-> <<>>], Append(acc, open)) ELSE IF open.level > 0 /\ html[k] # "<a>" THEN headings(html, k + 1, [open EXCEPT !.text = Append(@, html[k])], acc) ELSE headings(html, k + 1, open, acc)

\* the stack of open nodes after popping every node of level >= l
popToKeep(stk, ns, l) == stk

RECURSIVE popToEqual(_, _, _)
popToEqual(stk, ns, l) == IF stk = <<>> THEN stk ELSE IF ns[stk[Len(stk)]].level <= l THEN stk ELSE popToEqual(SubSeq(stk, 1, Len(stk) - 1), ns, l)

RECURSIVE popTo(_, _, _)
popTo(stk, ns, l) == IF stk = <<>> THEN stk ELSE IF ns[stk[Len(stk)]].level < l THEN stk ELSE popTo(SubSeq(stk, 1, Len(stk) - 1), ns, l)

\* the forest in pre-order; parent is the position of the parent node, 0 at top level
inRangeAlways(h, d) == TRUE

\* a heading deeper than the depth limit is left out
inRange(h, d) == h.level <= d

\* one heading taken: the open nodes and the forest after it
nestStep(h, d, stk, ns) ==
    IF ~inRange(h, d) THEN [stack |-> stk, nodes |-> ns]
    ELSE LET st == popTo(stk, ns, h.level)
         IN  [stack |-> Append(st, Len(ns) + 1), nodes |-> Append(ns, [text |-> h.text, level |-> h.level, parent |-> IF st = <<>> THEN 0 ELSE st[Len(st)]])]

RECURSIVE nest(_, _, _, _, _)
nest(hds, k, d, stk, ns) == IF k > Len(hds) THEN ns ELSE LET n == nestStep(hds[k], d, stk, ns) IN nest(hds, k + 1, d, n.stack, n.nodes)

\* outliner.outline(contents, depth)
outline(html, d) == nest(headings(html, 1, [level |-> 0, text |-> <<>>], <<>>), 1, d, <<>>, <<>>)

\* a text of headings only: the k-th heading has level lv[k] and its own text
HeadingNames == <<"A", "B", "C", "D", "E", "F">>
RECURSIVE htmlOf(_, _)
htmlOf(lv, k) == IF k > Len(lv) THEN <<>> ELSE heading(<<HeadingNames[k]>>, lv[k]) \o htmlOf(lv, k + 1)

\* the page template of the theme: every section followed by a newline
RECURSIVE eachSection(_)
eachSection(ss) == IF ss = <<>> THEN <<>> ELSE Head(ss) \o <<"\n">> \o eachSection(Tail(ss))
renderPage(d) == IF d.sections.has THEN eachSection(d.sections.v) ELSE <<>>

\* the tasks of create()
CreateTasksWriteFirst == <<"_addData", "_write", "_render">>

CreateTasks == <<"_addData", "_render", "_write">>

\* async.waterfall / async.series: an error ends the chain
AbortNever(err) == FALSE

Abort(err) == err.kind # "none"

\* if (this.opts.compile) of _addOutline
addsOutlineAlways == TRUE

addsOutline == compile

\* if (err) { return callback(err); } of the callback of mkdirp in _write
mkdirpAbortsNever(err) == FALSE

mkdirpAborts(err) == err.kind # "none"

\* if (!err) of _addSections
StoreSectionsAlways(err) == TRUE

StoreSections(err) == err.kind = "none"

\* var opts = _.jsonClone(options) of _buildOpts: this.opts.data is an object
\* of its own, so the caller's data stays as it is when this.opts.data becomes d.
notCloned(callers, d) == d

jsonCloned(callers, d) == callers

\* _.jsonClone: JSON.parse(JSON.stringify(x)); a function is not JSON and its
\* key is dropped.
cloneValue(x) == IF x = Fn THEN None ELSE x
jsonClone(d) == [title |-> d.title, sections |-> cloneValue(d.sections), outline |-> cloneValue(d.outline), pageName |-> cloneValue(d.pageName), fmt |-> cloneValue(d.fmt)]

\* this.opts.data after the constructor: the clone of the caller's data with
\* this.opts.data.pageName = page.pageName
buildDataDefaults(callers, pg) == [jsonClone(PlainData) EXCEPT !.pageName = pg.pageName]

buildData(callers, pg) == [jsonClone(callers) EXCEPT !.pageName = pg.pageName]

\* The segments of a path given as a string.
split(name) == CASE name = "../d" -> <<"..", "d">> [] name = "/test" -> <<"/", "test">> [] OTHER -> <<name>>

\* path.resolve(dir, name): an absolute name stands alone, a ".." segment
\* leaves the directory reached so far.
RECURSIVE resolveFrom(_, _, _)
resolveFrom(at, segs, k) == IF k > Len(segs) THEN at ELSE IF segs[k] = "/" THEN resolveFrom(<<>>, segs, k + 1) ELSE IF segs[k] = ".." THEN resolveFrom(IF at = <<>> THEN at ELSE SubSeq(at, 1, Len(at) - 1), segs, k + 1) ELSE resolveFrom(Append(at, segs[k]), segs, k + 1)
resolve(dir, name) == resolveFrom(dir, split(name), 1)

\* opts.root, opts.docs and opts.dest after _buildOpts, with the defaults
\* './build/docs' and './'
RootDir == <<"cwd">>
DocsDir == resolveFrom(RootDir, <<"build", "docs">>, 1)
DestDir == resolveFrom(RootDir, <<>>, 1)

\* var filePath = path.resolve(this.opts.docs, section) of _getSection
sectionPath(section) == resolve(DocsDir, section[1])

\* var filePath = path.resolve(this.opts.dest, this.page.fileName) of _write
writePath == resolve(DestDir, page.fileName)

\* What one Page instance keeps for itself.
Private == [data |-> data, pc |-> pc, ct |-> ct, idx |-> idx, r |-> r, tasks |-> tasks, ti |-> ti, val |-> val, cbCount |-> cbCount, calls |-> calls, log |-> log, start |-> start]

\* There is one Page only.
Single ==
    /\ me = 1
    /\ other = [pc |-> "none"]

\* ------------------------------------------------------------ initial state
\* The state after new Page(page, opts): the caller's section list, the
\* compile option, the contents map, the docs directory and the destination.
\* if (!opts || !opts.theme) throw new Error('missing required opts.')
Rejects(given) == given \in {"absent", "noTheme"}

OutlinerIdle ==
    /\ hs = <<>>
    /\ hk = 0
    /\ stack = <<>>
    /\ nodes = <<>>
    /\ lim = depth

RendererIdle ==
    /\ rendered = <<>>
    /\ el = headingElement(<<>>, 1)

\* no page is being built
NoPage ==
    /\ optsGiven = "full"
    /\ sections = <<>>
    /\ compile = TRUE
    /\ page = PlainPage
    /\ Single
    /\ contents = [ref \in Refs |-> None]
    /\ files = [ref \in Refs |-> None]
    /\ callerData = PlainData
    /\ data = buildData(callerData, page)
    /\ destDir = TRUE
    /\ destFile = Some(OldFile)
    /\ pc = "new"
    /\ ct = 0
    /\ idx = 0
    /\ r = <<>>
    /\ tasks = <<>>
    /\ ti = 0
    /\ val = <<>>
    /\ cbCount = 0
    /\ calls = 0
    /\ log = <<>>
    /\ start = [dir |-> destDir, file |-> destFile, sections |-> None, outline |-> None, prev |-> FALSE]

Constructed(refs, fileValues, givenOpts, datas, pages) ==
    /\ optsGiven \in givenOpts
    /\ page \in pages
    /\ sections \in SeqsUpTo(refs, MaxSections)
    /\ compile \in BOOLEAN
    /\ contents \in [refs -> {None} \cup {Some(x) : x \in OverrideValues}]
    /\ files \in [refs -> {None} \cup {Some(x) : x \in fileValues}]
    /\ \A ref \in refs : (\A k \in 1..Len(sections) : sections[k] # ref) => (contents[ref] = None /\ files[ref] = None)
    /\ callerData \in datas
    /\ data = buildData(callerData, page)
    /\ destDir \in BOOLEAN
    /\ destFile = IF destDir THEN Some(OldFile) ELSE None
    /\ pc = IF Rejects(optsGiven) THEN "rejected" ELSE "new"
    /\ ct = 0
    /\ idx = 0
    /\ r = <<>>
    /\ tasks = <<>>
    /\ ti = 0
    /\ val = <<>>
    /\ cbCount = 0
    /\ calls = 0
    /\ log = <<>>
    /\ start = [dir |-> destDir, file |-> destFile, sections |-> None, outline |-> None, prev |-> FALSE]
    /\ OutlinerIdle
    /\ RendererIdle

Init == Constructed(Refs, FileValues, {"full"}, {PlainData}, {PlainPage}) /\ Single

\* ------------------------------------------------------------ control flow
\* The variables a handler assigns.
Set(d, p, c, i, acc, tk, t, v, n, lg) ==
    /\ data' = d
    /\ callerData' = jsonCloned(callerData, d)
    /\ pc' = p
    /\ ct' = c
    /\ idx' = i
    /\ r' = acc
    /\ tasks' = tk
    /\ ti' = t
    /\ val' = v
    /\ cbCount' = n
    /\ log' = lg

\* The callback handed to create() is invoked.
Finish(d, err, lg) == Set(d, "done", 0, 0, <<>>, <<>>, 0, <<>>, cbCount + 1, Append(lg, Ev("callback", err.at, <<>>, <<>>, err.kind)))

\* the error argument of the callback, once create() has called back
cbErr == IF log # <<>> /\ log[Len(log)].op = "callback" THEN Err(log[Len(log)].e, log[Len(log)].i) ELSE NoErr

\* What the error object handed to the callback of create() tells about its
\* origin.  An error of _.readFile holds the path of the section's file;
\* _getSection, _buildSection and _addSections hand the error on as it is:
\* nothing names the section of the list or the page's fileName.
errorInfo(err) == [path |-> IF err.at > 0 /\ err.kind \in {"ENOENT", "EIO"} THEN Some(sections[err.at]) ELSE None, section |-> None, fileName |-> None]

\* An exception leaves a nextTick / I/O callback: nothing catches it and the
\* pending chain is never resumed.
Throw(d, lg) == Set(d, "crashed", ct, idx, r, tasks, ti, val, cbCount, lg)

\* _getSection(section, callback) for the i-th section, called by
\* _buildSection from the iterator of async.concatSeries.
BeginSection(c, d, i, acc, lg) ==
    IF existingSection(sections[i])
    THEN Set(d, "getSection_tick", c, i, acc, BuildTasks(sections[i]), 1, contents[sections[i]].v, cbCount, lg)
    ELSE Set(d, "readFile", c, i, acc, BuildTasks(sections[i]), 1, <<>>, cbCount, Append(lg, Ev("readFile", i, sectionPath(sections[i]), <<>>, "none")))

\* async.waterfall calls the k-th task of create(); _addData calls
\* _addSections through async.series.
RECURSIVE StartTask(_, _, _, _)

\* The callback of a task of create(): async.waterfall goes on or ends.
TaskDone(k, d, err, v, lg) ==
    IF Abort(err) THEN Finish(d, err, lg)
    ELSE IF k < Len(CreateTasks) THEN StartTask(k + 1, d, v, lg)
    ELSE Finish(d, NoErr, lg)

\* The final callback of async.concatSeries in _addSections, then
\* async.series of _addData: _addOutline, or the end of _addData.
EndSections(c, d, err, acc, lg) ==
    LET d1 == IF StoreSections(err) THEN [d EXCEPT !.sections = Some(acc)] ELSE d
        lg1 == IF StoreSections(err) THEN Append(lg, Ev("sections", 0, <<>>, join(acc), "none")) ELSE lg
        lg2 == Append(lg1, Ev("_addOutline", 0, <<>>, <<>>, "none"))
        lg3 == IF addsOutline THEN Append(lg2, Ev("outline", 0, <<>>, <<>>, "none")) ELSE lg2
    IN  IF Abort(err) THEN TaskDone(c, d1, err, <<>>, lg1)
        ELSE Set(IF addsOutline THEN [d1 EXCEPT !.outline = Some(outline(join(d1.sections.v), depth))] ELSE d1, "addOutline_tick", c, 0, <<>>, <<>>, 0, <<>>, cbCount, lg3)

StartTask(k, d, v, lg) ==
    CASE CreateTasks[k] = "_addData" -> (IF sections = <<>> THEN EndSections(k, d, NoErr, <<>>, Append(lg, Ev("_addSections", 0, <<>>, <<>>, "none"))) ELSE BeginSection(k, d, 1, <<>>, Append(lg, Ev("_addSections", 0, <<>>, <<>>, "none"))))
      [] CreateTasks[k] = "_render" -> Set(d, "renderFile", k, 0, <<>>, <<>>, 0, <<>>, cbCount, Append(lg, Ev("_render", 0, <<>>, <<>>, "none")))
      [] CreateTasks[k] = "_write" -> Set(d, "mkdirp", k, 0, <<>>, <<>>, 0, v, cbCount, Append(lg, Ev("_write", 0, v, <<>>, "none")))

\* The callback of _buildSection: async.concatSeries collects the result and
\* goes to the next section, or ends.
SectionDone(d, err, v, lg) ==
    LET acc == IF err.kind = "none" THEN concat(r, v) ELSE r
        lg1 == IF err.kind = "none" THEN Append(lg, Ev("built", idx, <<>>, v, "none")) ELSE lg
    IN  IF Abort(err) \/ idx >= Len(sections) THEN EndSections(ct, d, err, acc, lg1)
        ELSE BeginSection(ct, d, idx + 1, acc, lg1)

\* The callback of a task of the section chain: async.waterfall calls the
\* next task with the result, or the callback of _buildSection.
SectionStep(d, v, lg) ==
    IF ti < Len(tasks)
    THEN Set(d, IF tasks[ti + 1] = "_templateSection" THEN "templateSection_tick" ELSE "compileSection_tick", ct, idx, r, tasks, ti + 1, v, cbCount, lg)
    ELSE SectionDone(d, NoErr, v, lg)

\* ------------------------------------------------------------ actions
\* Page.prototype.create: runs to the first asynchronous boundary.  start
\* keeps what the run found: the destination, the derived keys of the data
\* and whether the run before it ended with success.
Create(limit) ==
    /\ pc \in {"new", "done"}
    /\ calls < limit
    /\ calls' = calls + 1
    /\ start' = [dir |-> destDir, file |-> destFile, sections |-> data.sections, outline |-> data.outline, prev |-> (pc = "done" /\ cbErr = NoErr)]
    /\ StartTask(1, data, <<>>, <<Ev("create", 0, <<>>, <<>>, "none")>>)
    /\ UNCHANGED <<sections, compile, contents, files, destDir, destFile, aside>>

create == Create(MaxCreates)

\* process.nextTick of _getSection: callback(null, existingSection).
getSectionTick ==
    /\ pc = "getSection_tick"
    /\ SectionStep(data, val, Append(log, Ev("_getSection", idx, <<>>, val, "none")))
    /\ UNCHANGED <<sections, compile, contents, files, destDir, destFile, calls, start, aside>>

\* The callback of _.readFile in _getSection: the file's text, ENOENT for a
\* missing file, or a read error.
readFileDone ==
    /\ pc = "readFile"
    /\ \/ LET res == readFile(sections[idx])
          IN  IF res.err.kind = "none"
              THEN SectionStep(data, res.out, Append(log, Ev("_getSection", idx, <<>>, res.out, "none")))
              ELSE SectionDone(data, Err(res.err.kind, idx), <<>>, Append(log, Ev("_getSection", idx, <<>>, <<>>, res.err.kind)))
       \/ /\ files[sections[idx]].has
          /\ SectionDone(data, Err("EIO", idx), <<>>, Append(log, Ev("_getSection", idx, <<>>, <<>>, "EIO")))
    /\ UNCHANGED <<sections, compile, contents, files, destDir, destFile, calls, start, aside>>

\* process.nextTick of _templateSection: _.renderTmpl returns, or throws
\* (syntax error, unresolved helper) inside the tick.
templateSectionTick ==
    /\ pc = "templateSection_tick"
    /\ \/ SectionStep(data, renderTmpl(val, data), Append(log, Ev("_templateSection", idx, val, renderTmpl(val, data), "none")))
       \/ Throw(data, Append(log, Ev("_templateSection", idx, val, <<>>, "throw")))
    /\ UNCHANGED <<sections, compile, contents, files, destDir, destFile, calls, start, aside>>

\* process.nextTick of _compileSection: marked returns, or throws inside the tick.
compileSectionTick ==
    /\ pc = "compileSection_tick"
    /\ \/ SectionStep(data, marked(val), Append(log, Ev("_compileSection", idx, val, marked(val), "none")))
       \/ Throw(data, Append(log, Ev("_compileSection", idx, val, <<>>, "throw")))
    /\ UNCHANGED <<sections, compile, contents, files, destDir, destFile, calls, start, aside>>

\* process.nextTick(callback) of _addOutline: async.series ends, _addData
\* calls back with no error.
addOutlineTick ==
    /\ pc = "addOutline_tick"
    /\ TaskDone(ct, data, NoErr, <<>>, Append(log, Ev("_addOutline.done", 0, <<>>, <<>>, "none")))
    /\ UNCHANGED <<sections, compile, contents, files, destDir, destFile, calls, start, aside>>

\* The callback of _.renderFile in _render.  Without a pageTmpl there is no
\* file to render: _.renderFile(undefined, ...) calls back with an error or
\* throws.
renderFileDone ==
    /\ pc = "renderFile"
    /\ \/ /\ optsGiven = "full"
          /\ TaskDone(ct, data, NoErr, renderPage(data), Append(log, Ev("_render.done", 0, <<>>, renderPage(data), "none")))
       \/ IF optsGiven = "full"
          THEN TaskDone(ct, data, Err("ERENDER", 0), <<>>, Append(log, Ev("_render.done", 0, <<>>, <<>>, "ERENDER")))
          ELSE \E thrown \in BOOLEAN :
                   IF thrown THEN Throw(data, Append(log, Ev("_render.done", 0, <<>>, <<>>, "throw")))
                   ELSE TaskDone(ct, data, Err("ERENDER", 0), <<>>, Append(log, Ev("_render.done", 0, <<>>, <<>>, "ERENDER")))
    /\ UNCHANGED <<sections, compile, contents, files, destDir, destFile, calls, start, aside>>

\* The callback of mkdirp in _write: fs.writeFile is started, or the error
\* is passed on.
mkdirpDone ==
    /\ pc = "mkdirp"
    /\ \/ /\ Set(data, "writeFile", ct, 0, <<>>, <<>>, 0, val, cbCount, Append(log, Ev("mkdirp", 0, <<>>, <<>>, "none")))
          /\ destDir' = TRUE
       \/ /\ ~destDir
          /\ IF mkdirpAborts(Err("EMKDIR", 0))
             THEN TaskDone(ct, data, Err("EMKDIR", 0), <<>>, Append(log, Ev("mkdirp", 0, <<>>, <<>>, "EMKDIR")))
             ELSE Set(data, "writeFile", ct, 0, <<>>, <<>>, 0, val, cbCount, Append(log, Ev("mkdirp", 0, <<>>, <<>>, "EMKDIR")))
          /\ destDir' = destDir
    /\ UNCHANGED <<sections, compile, contents, files, destFile, calls, start, aside>>

\* The callback of fs.writeFile in _write.  A failed write leaves the old
\* file or a truncated one.
writeFileDone ==
    /\ pc = "writeFile"
    /\ \/ /\ TaskDone(ct, data, NoErr, <<>>, Append(log, Ev("writeFile", 0, val, writePath, "none")))
          /\ destFile' = Some(val)
       \/ /\ TaskDone(ct, data, Err("EWRITE", 0), <<>>, Append(log, Ev("writeFile", 0, val, writePath, "EWRITE")))
          /\ destFile' \in {destFile, Some(<<>>)}
    /\ UNCHANGED <<sections, compile, contents, files, destDir, calls, start, aside>>

Next ==
    \/ create
    \/ getSectionTick
    \/ readFileDone
    \/ templateSectionTick
    \/ compileSectionTick
    \/ addOutlineTick
    \/ renderFileDone
    \/ mkdirpDone
    \/ writeFileDone

Spec == Init /\ [][Next]_vars

\* ------------------------------------------------------------ a page built again
\* create() is called again on the same Page once a run has called back.
createAgain == Create(MaxCreates + 1)

ReuseInit == Constructed(Refs, ReuseFileValues, {"full"}, {PlainData}, {PlainPage}) /\ Single

ReuseNext ==
    \/ createAgain
    \/ getSectionTick
    \/ readFileDone
    \/ templateSectionTick
    \/ compileSectionTick
    \/ addOutlineTick
    \/ renderFileDone
    \/ mkdirpDone
    \/ writeFileDone

ReuseSpec == ReuseInit /\ [][ReuseNext]_vars

\* ------------------------------------------------------------ any options
\* new Page with options that may lack opts, opts.theme or opts.theme.pageTmpl.
AnyOptsInit == Constructed(Refs, FileValues, {"absent", "noTheme", "noPageTmpl", "full"}, {PlainData}, {PlainPage}) /\ Single

AnyOptsSpec == AnyOptsInit /\ [][Next]_vars

\* ------------------------------------------------------------ any page and data
\* new Page with a page, section references and data of any of the forms a
\* caller may pass.
AnyInputInit == Constructed(InputRefs, FileValues, {"full"}, InputDatas, InputPages) /\ Single

AnyInputSpec == AnyInputInit /\ [][Next]_vars

\* ------------------------------------------------------------ two pages at once
\* Two Page instances are constructed from the same page and options, and
\* create() is called once on each; their callbacks run in any order.
TwoRefs == {<<"d", "md", "hbs">>}

TwoInit ==
    /\ Constructed(TwoRefs, ReuseFileValues, {"full"}, {PlainData}, {PlainPage})
    /\ me = 1
    /\ other = Private

createOnce == Create(1)

\* this.opts.data of an instance is its own object: _buildOpts clones the
\* options for each instance.
instanceDataShared(saved, current) == current

instanceData(saved, current) == saved

\* The event loop goes from a callback of one instance to a callback of the
\* other one.
switchInstance ==
    /\ me' = 3 - me
    /\ other' = Private
    /\ data' = instanceData(other.data, data)
    /\ pc' = other.pc
    /\ ct' = other.ct
    /\ idx' = other.idx
    /\ r' = other.r
    /\ tasks' = other.tasks
    /\ ti' = other.ti
    /\ val' = other.val
    /\ cbCount' = other.cbCount
    /\ calls' = other.calls
    /\ log' = other.log
    /\ start' = other.start
    /\ UNCHANGED <<sections, compile, contents, files, destDir, destFile, callerData, outliner, optsGiven, renderer, page>>

TwoNext ==
    \/ createOnce
    \/ getSectionTick
    \/ readFileDone
    \/ templateSectionTick
    \/ compileSectionTick
    \/ addOutlineTick
    \/ renderFileDone
    \/ mkdirpDone
    \/ writeFileDone
    \/ switchInstance

TwoSpec == TwoInit /\ [][TwoNext]_vars

\* ------------------------------------------------------------ the outliner alone
\* outliner.outline(contents, depth) over a text of at most MaxHeadings
\* headings of any levels, with any depth limit; no page is being built.
OutlineInit ==
    /\ \E lv \in SeqsUpTo(1..MaxLevel, MaxHeadings) : hs = headings(htmlOf(lv, 1), 1, [level |-> 0, text |-> <<>>], <<>>)
    /\ lim \in 0..MaxLevel
    /\ hk = 0
    /\ stack = <<>>
    /\ nodes = <<>>
    /\ NoPage
    /\ RendererIdle

\* the next heading of the text is taken
outlineStep ==
    /\ hk < Len(hs)
    /\ LET n == nestStep(hs[hk + 1], lim, stack, nodes)
       IN  hk' = hk + 1 /\ stack' = n.stack /\ nodes' = n.nodes
    /\ UNCHANGED <<hs, lim, pageVars, optsGiven, renderer, page, me, other>>

OutlineNext == outlineStep

OutlineSpec == OutlineInit /\ [][OutlineNext]_vars

\* ------------------------------------------------------------ the renderer alone
\* marked calls renderer.heading for a heading of any text and level; no
\* page is being built.
HeadingInit ==
    /\ RendererIdle
    /\ OutlinerIdle
    /\ NoPage

renderHeading ==
    /\ Len(rendered) < MaxAnchors
    /\ \E text \in SeqsUpTo(Chars, MaxText), level \in 1..MaxLevel :
           /\ el' = headingElement(text, level)
           /\ rendered' = Append(rendered, [text |-> text, url |-> headingElement(text, level).attrs.name])
    /\ UNCHANGED <<pageVars, outliner, optsGiven, page, me, other>>

HeadingNext == renderHeading

HeadingSpec == HeadingInit /\ [][HeadingNext]_vars

\* ------------------------------------------------------------ types
TypeOK ==
    /\ pc \in {"rejected", "new", "getSection_tick", "readFile", "templateSection_tick", "compileSection_tick", "addOutline_tick", "renderFile", "mkdirp", "writeFile", "done", "crashed"}
    /\ cbCount \in 0..(MaxCreates + 1)
    /\ calls \in 0..(MaxCreates + 1)
    /\ idx \in 0..Len(sections)

\* ------------------------------------------------------------ reading the log
\* log holds the events of the current run of create(); start holds the
\* destination and data.sections as they were when the run began.
IsPrefix(s, t) == Len(s) <= Len(t) /\ \A k \in 1..Len(s) : s[k] = t[k]

OpsOf(lg) == [k \in 1..Len(lg) |-> lg[k].op]

StageOps == {"_addSections", "sections", "_addOutline", "_addOutline.done", "_render", "_render.done", "_write", "mkdirp", "writeFile", "callback"}
SectionOps == {"_getSection", "_templateSection", "_compileSection"}
WriterOps == {"_write", "mkdirp", "writeFile"}

\* the stage events that succeeded, in order
StagesOk(lg) == SelectSeq(lg, LAMBDA ev : ev.op \in StageOps /\ ev.e = "none")

\* the events of the i-th section with an op of S, in order
SecLog(lg, i, S) == SelectSeq(lg, LAMBDA ev : ev.i = i /\ ev.op \in S)

\* the i-th section has been built in this run
Built(i) == \E k \in 1..Len(log) : log[k].op = "built" /\ log[k].i = i

Has(op) == \E k \in 1..Len(log) : log[k].op = op
HasWriterEvent == \E k \in 1..Len(log) : log[k].op \in WriterOps
DestUntouched == destDir = start.dir /\ destFile = start.file

FullRun == <<"_addSections", "sections", "_addOutline", "_addOutline.done", "_render", "_render.done", "_write", "mkdirp", "writeFile", "callback">>

\* ------------------------------------------------------------ claims
\* C1: in every run of create() the stages happen in the order build all
\* sections, populate the outline, render the page template, write the file,
\* each at most once and each only after the previous stage succeeded; the
\* success callback comes only after the write has completed.  A failed or
\* throwing step is the last step of the run but for the error callback.
C1_StageOrder ==
    /\ IsPrefix(OpsOf(StagesOk(log)), FullRun)
    /\ \A k \in 1..Len(log) : (log[k].e # "none" /\ log[k].op # "callback") => (k = Len(log) \/ (k + 1 = Len(log) /\ log[k + 1].op = "callback" /\ log[k + 1].e # "none"))
    /\ \A k \in 1..Len(log) : log[k].op = "callback" => k = Len(log)

\* C1 witness: a run over two sections went through every stage and called back with success.
C1_Witness == pc = "done" /\ cbErr = NoErr /\ Len(sections) = 2 /\ OpsOf(StagesOk(log)) = FullRun

\* C2: in a run in which a section build or the render fails (the outline
\* step has no failing outcome), the Writer is never invoked: the destination
\* directory is not created, nothing is written and an existing destination
\* file is unchanged.
FailedBeforeWrite == \E k \in 1..Len(log) : log[k].e # "none" /\ log[k].op \in SectionOps \cup {"_render.done"}

C2_NoWriteAfterFailure == FailedBeforeWrite => (~HasWriterEvent /\ DestUntouched)

\* C2 witness: the render failed and the old destination file is still there.
C2_Witness == pc = "done" /\ cbErr.kind = "ERENDER" /\ destFile = Some(OldFile) /\ ~HasWriterEvent

\* C3: every invocation of create() invokes its callback exactly once: when no
\* step of a run is pending any more, each invocation has been called back once.
C3_CallbackExactlyOnce == cbCount <= calls /\ (pc \in {"done", "crashed"} => cbCount = calls)

\* C4: when building the section list fails, the error reported is that of
\* the lowest-index failing section, no later section is resolved, templated
\* or compiled, and the results of the sections built before it are not
\* stored: data.sections is not assigned by that build.
NotFound(ref) == ~existingSection(ref) /\ ~files[ref].has

FailedAt(j) ==
    /\ \A i \in 1..(j - 1) : Built(i)
    /\ \A k \in 1..Len(log) : log[k].i <= j
    /\ ~Built(j)
    /\ ~Has("sections")
    /\ data.sections = start.sections
    /\ \A i \in 1..Len(sections) : NotFound(sections[i]) => j <= i

C4_FirstFailureOnly ==
    /\ (pc = "done" /\ cbErr.at > 0) => (FailedAt(cbErr.at) /\ \E k \in 1..Len(log) : log[k].op = "_getSection" /\ log[k].i = cbErr.at /\ log[k].e = cbErr.kind)
    /\ \A k \in 1..Len(log) : (log[k].e = "throw" /\ log[k].i > 0) => FailedAt(log[k].i)

\* C4 witness: the first of two sections is missing, the second one is there.
C4_Witness == pc = "done" /\ Len(sections) = 2 /\ cbErr = Err("ENOENT", 1) /\ files[sections[2]].has /\ ~Has("sections") /\ ~data.sections.has

\* C5: when every section builds, data.sections has exactly one entry per
\* entry of page.sections and its i-th entry is the built content of the i-th
\* section, also for a section whose built content is the empty string.
BuiltOf(i) == SecLog(log, i, {"built"})[1].res

C5_OneEntryPerSection == Has("sections") => (Len(data.sections.v) = Len(sections) /\ \A i \in 1..Len(sections) : data.sections.v[i] = BuiltOf(i))

\* C6: for a section with both the template and the markup marker, compile
\* enabled, the chain runs resolve, template expansion, markup compilation in
\* that order: the template's input is the resolved content, the compiler's
\* input is the template's output, and the built content is the compiler's output.
BothMarkers(ref) == hasExt(ref, "hbs") /\ hasExt(ref, "md")

ChainOf(i) == SecLog(log, i, SectionOps \cup {"built"})

C6_TemplateThenCompile ==
    \A i \in 1..Len(sections) : (BothMarkers(sections[i]) /\ compile) =>
        LET ch == ChainOf(i)
        IN  /\ IsPrefix(OpsOf(ch), <<"_getSection", "_templateSection", "_compileSection", "built">>)
            /\ \A k \in 2..Len(ch) : IF ch[k].op = "built" THEN ch[k].res = ch[k - 1].res ELSE ch[k].arg = ch[k - 1].res

\* C6 witness: the compiler was given the expanded text "# T" of the raw "# {{title}}".
C6_Witness == \E i \in 1..Len(sections) : BothMarkers(sections[i]) /\ compile /\ Built(i) /\ ChainOf(i)[1].res = <<"#", "{{title}}">> /\ ChainOf(i)[3].arg = <<"#", "T">> /\ ChainOf(i)[4].res = <<"<h1>", "<a>", "T", "</h1>">>

\* C7: for every section, resolve always runs, template expansion runs iff
\* the reference has the .hbs marker, markup compilation runs iff it has the
\* .md marker and compile is true; no other combination of stages runs.
Marker(ref, ext) == \E k \in 2..Len(ref) : ref[k] = ext

ExpectedStages(ref) == <<"_getSection">> \o (IF Marker(ref, "hbs") THEN <<"_templateSection">> ELSE <<>>) \o (IF Marker(ref, "md") /\ compile THEN <<"_compileSection">> ELSE <<>>)

C7_StagesByMarker ==
    \A i \in 1..Len(sections) :
        LET ran == OpsOf(SecLog(log, i, SectionOps))
        IN  /\ IsPrefix(ran, ExpectedStages(sections[i]))
            /\ Built(i) => ran = ExpectedStages(sections[i])

\* C7 witness: a markup section was built with compile false, by resolve alone.
C7_Witness == \E i \in 1..Len(sections) : sections[i] = <<"c", "md">> /\ ~compile /\ Built(i) /\ OpsOf(SecLog(log, i, SectionOps)) = <<"_getSection">>

\* C8 as stated: for a section with neither marker, and for every section
\* when compile is false, the built content equals the raw resolved content.
RawOf(i) == SecLog(log, i, {"_getSection"})[1].res

C8_PassThroughOriginal == \A i \in 1..Len(sections) : (Built(i) /\ ((~Marker(sections[i], "hbs") /\ ~Marker(sections[i], "md")) \/ ~compile)) => BuiltOf(i) = RawOf(i)

\* C8 amended: for a section without the template marker that has no markup
\* marker or is built with compile false, the built content equals the raw
\* resolved content.
C8_PassThrough == \A i \in 1..Len(sections) : (Built(i) /\ ~Marker(sections[i], "hbs") /\ (~Marker(sections[i], "md") \/ ~compile)) => BuiltOf(i) = RawOf(i)

\* C8 witness: a markup section holding "# {{title}}" passed through unchanged with compile false.
C8_Witness == \E i \in 1..Len(sections) : sections[i] = <<"c", "md">> /\ ~compile /\ Built(i) /\ BuiltOf(i) = <<"#", "{{title}}">>

\* C9: for a section that is a key of opts.contents, whatever the value, the
\* resolver returns that value and reads no file, even when the file exists.
C9_OverrideWins == \A i \in 1..Len(sections) : contents[sections[i]].has => (SecLog(log, i, {"readFile"}) = <<>> /\ \A k \in 1..Len(log) : (log[k].op = "_getSection" /\ log[k].i = i) => (log[k].e = "none" /\ log[k].res = contents[sections[i]].v))

\* C10: when a section is neither a key of opts.contents nor an existing
\* file, resolving it fails, the error reaches the callback of create(), and
\* the build ends without rendering the page and without writing a file.
Absent(ref) == ~contents[ref].has /\ ~files[ref].has

C10_MissingSectionFails ==
    \A k \in 1..Len(log) : (log[k].op = "_getSection" /\ Absent(sections[log[k].i])) =>
        /\ log[k].e = "ENOENT"
        /\ pc = "done" /\ cbErr = Err("ENOENT", log[k].i) /\ cbCount = calls
        /\ log[Len(log)].op = "callback" /\ log[Len(log)].e = "ENOENT"
        /\ ~Has("_render") /\ ~HasWriterEvent /\ DestUntouched

\* C10 witness: the second section is in neither place; the build ended with its error.
C10_Witness == pc = "done" /\ Len(sections) = 2 /\ Absent(sections[2]) /\ cbErr = Err("ENOENT", 2) /\ destFile = start.file

\* C11: a build sets data.outline only when the compile option is true and
\* only after the same build has stored data.sections; with compile false a
\* build leaves data.outline as it found it, whatever the sections hold.
C11_OutlineOnlyCompiled ==
    /\ \A k \in 1..Len(log) : log[k].op = "outline" => (compile /\ \E j \in 1..(k - 1) : log[j].op = "sections")
    /\ data.outline # start.outline => (compile /\ Has("outline") /\ data.sections.has)
    /\ ~compile => (data.outline = start.outline /\ ~Has("outline"))

\* C11 witness: a compiled build stored its sections and then an outline
\* holding the heading of the section.
C11_Witness == compile /\ Has("_addOutline.done") /\ data.sections.has /\ data.outline.has /\ Len(data.outline.v) = 1 /\ data.outline.v[1].text = <<"T">>

\* ------------------------------------------------------------ claims on the outliner
\* the headings within the depth limit among the first k headings, in order
Kept(k) == SelectSeq(SubSeq(hs, 1, k), LAMBDA h : h.level <= lim)

LevelsOf(hds) == [k \in 1..Len(hds) |-> hds[k].level]
ParentsOf(ns) == [k \in 1..Len(ns) |-> ns[k].parent]
TextsOf(ns) == [k \in 1..Len(ns) |-> ns[k].text]

\* the nearest heading before the n-th of hds with a smaller level, 0 if none
NearestShallower(hds, n) ==
    LET S == {i \in 1..(n - 1) : hds[i].level < hds[n].level}
    IN  IF S = {} THEN 0 ELSE CHOOSE i \in S : \A j \in S : j <= i

\* C12: every heading within the depth limit becomes a child of the nearest
\* preceding in-range heading of a strictly smaller level, and a top-level
\* node when there is none; the nodes carry the headings' texts and levels.
\* H1(A), H2(B), H1(C) gives the forest [A[B], C]; H1(A), H3(B) puts B
\* directly under A with no node in between.
C12_NearestShallowerParent ==
    /\ Len(nodes) = Len(Kept(hk))
    /\ \A n \in 1..Len(nodes) : nodes[n] = [text |-> Kept(hk)[n].text, level |-> Kept(hk)[n].level, parent |-> NearestShallower(Kept(hk), n)]
    /\ (LevelsOf(hs) = <<1, 2, 1>> /\ lim >= 2 /\ hk = 3) => (TextsOf(nodes) = << <<"A">>, <<"B">>, <<"C">> >> /\ ParentsOf(nodes) = <<0, 1, 0>>)
    /\ (LevelsOf(hs) = <<1, 3>> /\ lim >= 3 /\ hk = 2) => (TextsOf(nodes) = << <<"A">>, <<"B">> >> /\ ParentsOf(nodes) = <<0, 1>>)

\* C12 witness: H1(A), H2(B), H1(C) has been outlined as [A[B], C].
C12_Witness == LevelsOf(hs) = <<1, 2, 1>> /\ lim = 3 /\ hk = 3 /\ ParentsOf(nodes) = <<0, 1, 0>> /\ TextsOf(nodes) = << <<"A">>, <<"B">>, <<"C">> >>

\* C13: no heading deeper than the depth limit is in the outline, and the
\* outline of a text equals the outline of the text without those headings.
KeptHtml == join([k \in 1..Len(Kept(Len(hs))) |-> heading(Kept(Len(hs))[k].text, Kept(Len(hs))[k].level)])

C13_DepthLimit ==
    /\ \A n \in 1..Len(nodes) : nodes[n].level <= lim
    /\ hk = Len(hs) => (nodes = outline(KeptHtml, lim) /\ nodes = outline(KeptHtml, MaxLevel + 2))

\* C13 witness: H1(A), H3(B), H2(C) with limit 2 has been outlined as [A[C]].
C13_Witness == LevelsOf(hs) = <<1, 3, 2>> /\ lim = 2 /\ hk = 3 /\ TextsOf(nodes) = << <<"A">>, <<"C">> >> /\ ParentsOf(nodes) = <<0, 1>>

\* the nodes below p (0: the whole forest) in pre-order, children in the
\* order in which they were attached
Children(ns, p, from) == {n \in from..Len(ns) : ns[n].parent = p}
RECURSIVE PreOrder(_, _, _)
PreOrder(ns, p, from) ==
    IF Children(ns, p, from) = {} THEN <<>>
    ELSE LET c == CHOOSE n \in Children(ns, p, from) : \A m \in Children(ns, p, from) : n <= m
         IN  <<c>> \o PreOrder(ns, c, c + 1) \o PreOrder(ns, p, c + 1)

\* C14: after every step of the extraction every node's level is smaller
\* than the level of each of its children, the pre-order traversal of the
\* forest is the in-range headings taken so far in document order, and no
\* step changes a node that is already in the forest.
C14_ForestShape ==
    /\ \A n \in 1..Len(nodes) : nodes[n].parent # 0 => (nodes[n].parent < n /\ nodes[nodes[n].parent].level < nodes[n].level)
    /\ [k \in 1..Len(PreOrder(nodes, 0, 1)) |-> [text |-> nodes[PreOrder(nodes, 0, 1)[k]].text, level |-> nodes[PreOrder(nodes, 0, 1)[k]].level]] = Kept(hk)

C14_NoReparenting == \A n \in 1..Len(nodes) : n <= Len(nodes') /\ nodes'[n] = nodes[n]

C14_ForestInvariant == [](C14_ForestShape) /\ [][C14_NoReparenting]_vars

\* C14 witness: in H1(A), H3(B), H2(C) the last heading has just been
\* attached under A, after B, which was closed by it.
C14_Witness == LevelsOf(hs) = <<1, 3, 2>> /\ lim = 3 /\ hk = 3 /\ ParentsOf(nodes) = <<0, 1, 1>> /\ stack = <<1, 3>> /\ PreOrder(nodes, 0, 1) = <<1, 2, 3>>

\* ------------------------------------------------------------ claims on builds (2)
\* C15: every error create() reports for a failing section carries the
\* identifier of that section and the page's file name.
C15_ErrorNamesSection == (pc = "done" /\ cbErr.at > 0) => ((errorInfo(cbErr).section = Some(sections[cbErr.at]) \/ errorInfo(cbErr).path = Some(sections[cbErr.at])) /\ errorInfo(cbErr).fileName.has)

\* C16: a second build with the same page, options, docs files and page
\* template writes the same bytes as the first: once create() has succeeded
\* again on a Page whose run before succeeded too, the destination file holds
\* what that earlier run wrote.
C16_RepeatSameOutput == (pc = "done" /\ cbErr = NoErr /\ start.prev) => destFile = start.file

\* C17: when create() starts, the data holds no sections and no outline
\* derived by an earlier create() on the same Page, also after a failed one.
C17_FreshDataEachCreate == ~start.sections.has /\ ~start.outline.has

C19_DirectoryBeforeFile ==
    /\ pc = "writeFile" => (destDir /\ log[Len(log)].op = "mkdirp" /\ log[Len(log)].e = "none")
    /\ \A k \in 1..Len(log) : log[k].op = "mkdirp" => (k > 1 /\ log[k - 1].op = "_write")
    /\ \A k \in 1..Len(log) : log[k].op = "writeFile" => (destDir /\ k > 2 /\ log[k - 1].op = "mkdirp" /\ log[k - 1].e = "none" /\ log[k - 2].op = "_write" /\ log[k].arg = log[k - 2].arg)
    /\ \A k \in 1..Len(log) : (log[k].op = "writeFile" /\ log[k].e = "none") => destFile = Some(log[k].arg)
    /\ \A k \in 1..Len(log) : (log[k].op = "mkdirp" /\ log[k].e # "none") =>
           /\ pc = "done" /\ cbErr.kind = log[k].e
           /\ k + 1 = Len(log) /\ log[k + 1].op = "callback"
           /\ ~Has("writeFile") /\ DestUntouched

\* C19 witness: the destination directory was missing when the run began; it
\* has been created and the page written into it.
C19_Witness == pc = "done" /\ cbErr = NoErr /\ ~start.dir /\ destDir /\ destFile.has /\ destFile.v # <<>> /\ Has("writeFile")

\* C20: a build whose options lack opts, opts.theme or opts.theme.pageTmpl
\* is rejected before any section is read: no section is resolved under
\* such options.
C20_RejectedBeforeRead == optsGiven # "full" => (~Has("readFile") /\ ~Has("_getSection"))

\* ------------------------------------------------------------ claims on the renderer
\* the text of the heading rendered last
LastText == rendered[Len(rendered)].text

\* C21: the compiled heading holds an anchor whose id attribute, name
\* attribute and href target all carry the slug of the heading text, and
\* then the heading text, inside an element of the heading's level.
C21_AnchorCarriesSlug ==
    rendered # <<>> =>
        /\ "id" \in DOMAIN el.attrs
        /\ el.attrs["id"] = url(LastText)
        /\ el.attrs["name"] = url(LastText)
        /\ el.attrs["href"] = <<"#">> \o url(LastText)
        /\ el.text = LastText
        /\ \E l \in 1..6 : el.open = HeadingOpen(l) /\ el.close = HeadingClose(l)

\* the lower-cased text in which every maximal run of non-word characters
\* has become one '-': a word character stays, a non-word character that
\* begins a run gives '-', any other non-word character gives nothing
Lowered(t) == [k \in 1..Len(t) |-> IF t[k] = "A" THEN "a" ELSE t[k]]
RunMarks(t) == [k \in 1..Len(t) |-> IF Lowered(t)[k] = "a" THEN "a" ELSE IF k = 1 \/ Lowered(t)[k - 1] = "a" THEN "-" ELSE ""]
ExpectedSlug(t) == SelectSeq(RunMarks(t), LAMBDA c : c # "")

\* C25: the anchor identifier of a heading is the lower-cased text with every
\* maximal run of non-word characters replaced by one '-'; it depends on
\* nothing rendered before, so headings with the same text always get the
\* same identifier.
C25_SlugOfTextAlone ==
    /\ \A k \in 1..Len(rendered) : rendered[k].url = ExpectedSlug(rendered[k].text)
    /\ \A j, k \in 1..Len(rendered) : rendered[j].text = rendered[k].text => rendered[j].url = rendered[k].url
    /\ rendered # <<>> => (el.attrs["name"] = rendered[Len(rendered)].url /\ el.attrs["href"] = <<"#">> \o rendered[Len(rendered)].url)

\* C25 witness: the heading text " &" was rendered twice; both anchors are "-".
C25_Witness == Len(rendered) = 2 /\ rendered[1].text = <<" ", "&">> /\ rendered[1].url = <<"-">> /\ rendered[2] = rendered[1]

\* ------------------------------------------------------------ claims on the caller's input
\* C22 as stated: the data handed to the page template holds every key of
\* the caller's opts.data with the caller's value, but for sections and outline.
C22_CallerKeysKeptOriginal == Has("_render") => (data.title = callerData.title /\ data.pageName = callerData.pageName /\ data.fmt = callerData.fmt)

\* C22 amended: the data handed to the page template holds every key of the
\* caller's opts.data whose value is JSON data with the caller's value, but
\* for sections, outline and pageName; pageName is page.pageName.
C22_CallerKeysKept == Has("_render") => (data.title = callerData.title /\ (callerData.fmt # Fn => data.fmt = callerData.fmt) /\ data.pageName = page.pageName)

\* C22 witness: the page template is being rendered with the caller's title
\* and string, and with the sections of the build.
C22_Witness == pc = "renderFile" /\ callerData.fmt = Some(<<"%d">>) /\ data.fmt = Some(<<"%d">>) /\ data.title = <<"T">> /\ data.sections.has /\ data.sections.v # <<>>

\* C23: every file a build reads lies under the docs directory and the file
\* it writes lies directly in the destination directory, whatever the
\* section references and the file name are.
C23_StaysInside ==
    \A k \in 1..Len(log) :
        /\ log[k].op = "readFile" => (IsPrefix(DocsDir, log[k].arg) /\ Len(log[k].arg) > Len(DocsDir))
        /\ log[k].op = "writeFile" => (IsPrefix(DestDir, log[k].res) /\ Len(log[k].res) = Len(DestDir) + 1)

\* ------------------------------------------------------------ claims on two pages
\* What a Page run alone makes of its i-th section, and the sections,
\* outline and page of a run alone that ends with success.
RECURSIVE AloneChain(_, _, _)
AloneChain(tk, k, v) == IF k > Len(tk) THEN v ELSE AloneChain(tk, k + 1, IF tk[k] = "_templateSection" THEN renderTmpl(v, buildData(callerData, page)) ELSE IF tk[k] = "_compileSection" THEN marked(v) ELSE v)
AloneSection(i) == AloneChain(BuildTasks(sections[i]), 2, IF existingSection(sections[i]) THEN contents[sections[i]].v ELSE files[sections[i]].v)
RECURSIVE AloneSections(_)
AloneSections(i) == IF i = 0 THEN <<>> ELSE concat(AloneSections(i - 1), AloneSection(i))
AloneData == [buildData(callerData, page) EXCEPT !.sections = Some(AloneSections(Len(sections))), !.outline = IF compile THEN Some(outline(join(AloneSections(Len(sections))), depth)) ELSE None]

C24_SameAsAlone ==
    (pc = "done" /\ cbErr = NoErr) =>
        /\ data = AloneData
        /\ \E k \in 1..Len(log) : log[k].op = "writeFile" /\ log[k].e = "none" /\ log[k].arg = renderPage(AloneData)
        /\ (other.pc = "done" /\ other.log[Len(other.log)].e = "none") => destFile = Some(renderPage(AloneData))

\* C24: of two Page instances built from the same page and options and run
\* in any interleaving, each one that ends with success ends with the
\* sections and outline, and has written the bytes, of a run alone; and a
\* step of one instance leaves what the other keeps as it was.
C24_Isolated == [](C24_SameAsAlone) /\ [][me' = me => other' = other]_vars

\* C24 witness: both instances have ended with success, the second one
\* having templated a section that lists the sections after the first one
\* had stored its own.
C24_Witness ==
    /\ me = 2
    /\ pc = "done" /\ cbErr = NoErr
    /\ other.pc = "done" /\ other.log[Len(other.log)].e = "none"
    /\ Len(sections) = 2
    /\ files[sections[1]] = Some(<<"{{#each sections}}", "x">>)
    /\ ~existingSection(sections[1])
    /\ data.sections = other.data.sections
    /\ destFile = Some(renderPage(data))

====
